---------------------------- MODULE Spec2Model ----------------------------
(***************************************************************************)
(* A model of imy (src/src/main.rs): a command line front end that         *)
(* converts image files, checks a file's format and reports it.            *)
(*                                                                         *)
(* Strings are sequences of one-character strings, so that lowercasing,    *)
(* trimming and replacing an extension are computed and not assumed.       *)
(* The file system, the codec library and the directory walk are the       *)
(* environment: a file carries what the codec library would find in it.    *)
(***************************************************************************)
EXTENDS Naturals, Sequences, FiniteSets

VARIABLES
    fs,         \* the file system: path -> file or NoFile
    args,       \* the parsed command line (struct Args)
    subscriber, \* TRUE when the process has a global tracing subscriber
    pc,         \* position of run: "run", "validate", "dispatch", "walk", "done"
    result,     \* what run returned (or "Panic"), NoResult while it runs
    stdout,     \* the lines written to context.stdout
    io,         \* the file system accesses made so far: <<kind, path>>
    walk,       \* the state of the loop of convert_directory
    last,       \* the last call of convert_file, NoCall before the first
    ft          \* the state of the format table exercise (FormatSpec)

vars == <<fs, args, subscriber, pc, result, stdout, io, walk, last, ft>>

----------------------------------------------------------------------------
(* Bounds *)

\* the longest run of whitespace put around a format name
MaxPad == 1

----------------------------------------------------------------------------
(* Strings *)

UPPER == <<"A","B","C","D","E","F","G","H","I","J","K","L","M",
           "N","O","P","Q","R","S","T","U","V","W","X","Y","Z">>
LOWER == <<"a","b","c","d","e","f","g","h","i","j","k","l","m",
           "n","o","p","q","r","s","t","u","v","w","x","y","z">>

Whitespace == {" ", "\t", "\n"}

lower_char(c) ==
    IF \E i \in 1..Len(UPPER) : UPPER[i] = c
    THEN LOWER[CHOOSE i \in 1..Len(UPPER) : UPPER[i] = c]
    ELSE c

\* str::to_lowercase
to_lowercase(s) == [i \in 1..Len(s) |-> lower_char(s[i])]

\* str::trim: drops the leading and the trailing whitespace
trim(s) ==
    LET keep == {i \in 1..Len(s) : s[i] \notin Whitespace}
    IN  IF keep = {} THEN <<>>
        ELSE LET lo == CHOOSE i \in keep : \A j \in keep : i <= j
                 hi == CHOOSE i \in keep : \A j \in keep : j <= i
             IN  SubSeq(s, lo, hi)

s_png      == <<"p","n","g">>
s_jpg      == <<"j","p","g">>
s_jpeg     == <<"j","p","e","g">>
s_gif      == <<"g","i","f">>
s_webp     == <<"w","e","b","p">>
s_pnm      == <<"p","n","m">>
s_tiff     == <<"t","i","f","f">>
s_tga      == <<"t","g","a">>
s_dds      == <<"d","d","s">>
s_bmp      == <<"b","m","p">>
s_ico      == <<"i","c","o">>
s_hdr      == <<"h","d","r">>
s_openexr  == <<"o","p","e","n","e","x","r">>
s_farbfeld == <<"f","a","r","b","f","e","l","d">>
s_avif     == <<"a","v","i","f">>
s_qoi      == <<"q","o","i">>
s_pcx      == <<"p","c","x">>
s_txt      == <<"t","x","t">>
s_unknown  == <<"u","n","k","n","o","w","n">>

----------------------------------------------------------------------------
(* The format table *)

\* image::ImageFormat, the variants main.rs names
ImageFormat == {"Png", "Jpeg", "Gif", "WebP", "Pnm", "Tiff", "Tga", "Dds",
                "Bmp", "Ico", "Hdr", "OpenExr", "Farbfeld", "Avif", "Qoi", "Pcx"}

UnknownFormat == "UnknownFormat"
Panic == "Panic"

string_to_format(format) ==
    CASE format = s_png      -> "Png"
      [] format = s_jpg      -> "Jpeg"
      [] format = s_jpeg     -> "Jpeg"
      [] format = s_gif      -> "Gif"
      [] format = s_webp     -> "WebP"
      [] format = s_pnm      -> "Pnm"
      [] format = s_tiff     -> "Tiff"
      [] format = s_tga      -> "Tga"
      [] format = s_dds      -> "Dds"
      [] format = s_bmp      -> "Bmp"
      [] format = s_ico      -> "Ico"
      [] format = s_hdr      -> "Hdr"
      [] format = s_openexr  -> "OpenExr"
      [] format = s_farbfeld -> "Farbfeld"
      [] format = s_avif     -> "Avif"
      [] format = s_qoi      -> "Qoi"
      [] format = s_pcx      -> "Pcx"
      [] OTHER               -> UnknownFormat

\* dirty_string_to_format without the trim
dirty_string_to_format_no_trim(format) == string_to_format(to_lowercase(format))

dirty_string_to_format(format) == string_to_format(trim(to_lowercase(format)))

\* what format_to_string yields where it panics (todo!())
NoName == <<>>

\* format_to_string with the alias jpg for Jpeg
format_to_string_jpg(format) ==
    CASE format = "Png"      -> s_png
      [] format = "Jpeg"     -> s_jpg
      [] format = "Gif"      -> s_gif
      [] format = "WebP"     -> s_webp
      [] format = "Pnm"      -> s_pnm
      [] format = "Tiff"     -> s_tiff
      [] format = "Tga"      -> s_tga
      [] format = "Dds"      -> s_dds
      [] format = "Bmp"      -> s_bmp
      [] format = "Ico"      -> s_ico
      [] format = "Hdr"      -> s_hdr
      [] format = "OpenExr"  -> s_openexr
      [] format = "Farbfeld" -> s_farbfeld
      [] format = "Avif"     -> s_avif
      [] format = "Qoi"      -> s_qoi
      [] format = "Pcx"      -> s_pcx
      [] OTHER               -> NoName

format_to_string(format) ==
    CASE format = "Png"      -> s_png
      [] format = "Jpeg"     -> s_jpeg
      [] format = "Gif"      -> s_gif
      [] format = "WebP"     -> s_webp
      [] format = "Pnm"      -> s_pnm
      [] format = "Tiff"     -> s_tiff
      [] format = "Tga"      -> s_tga
      [] format = "Dds"      -> s_dds
      [] format = "Bmp"      -> s_bmp
      [] format = "Ico"      -> s_ico
      [] format = "Hdr"      -> s_hdr
      [] format = "OpenExr"  -> s_openexr
      [] format = "Farbfeld" -> s_farbfeld
      [] format = "Avif"     -> s_avif
      [] format = "Qoi"      -> s_qoi
      [] format = "Pcx"      -> s_pcx
      [] OTHER               -> NoName

\* string_to_log_level: Level or InvalidLogLevel
string_to_log_level(level) ==
    IF level \in {"trace", "debug", "info", "warn", "error"}
    THEN level
    ELSE "InvalidLogLevel"

----------------------------------------------------------------------------
(* Paths and files *)

\* a path is <<file stem, extension>>; the extension is <<>> when it has none
Folder == << <<"f","o","l","d","e","r">>, <<>> >>
stem_a == <<"a">>

a_jpg  == <<stem_a, s_jpg>>
a_png  == <<stem_a, s_png>>
a_jpeg == <<stem_a, s_jpeg>>
a_txt  == <<stem_a, s_txt>>

FilePaths == {a_jpg, a_png, a_jpeg, a_txt}
AllPaths == {Folder} \cup FilePaths

\* Path::with_extension
with_extension(path, ext) == <<path[1], ext>>

\* Path::display
display(path) ==
    IF path[2] = <<>> THEN path[1] ELSE path[1] \o <<".">> \o path[2]

NoFormat == "NoFormat"
Corrupt == "Corrupt"

\* what the codec library and the file system find at a path:
\* kind      "none" (nothing there), "file", "dir" or "special"
\* readable  whether ImageReader::open succeeds
\* format    what Reader::format() returns, NoFormat for None
\* pixels    what Reader::decode() returns, Corrupt when it fails
File(kind, readable, format, pixels) ==
    [kind |-> kind, readable |-> readable, format |-> format, pixels |-> pixels]

NoFile      == File("none", FALSE, NoFormat, Corrupt)
Directory   == File("dir", TRUE, NoFormat, Corrupt)
Special     == File("special", FALSE, NoFormat, Corrupt)
Text        == File("file", TRUE, NoFormat, Corrupt)
Unreadable  == File("file", FALSE, NoFormat, Corrupt)
Image(format, pixels) == File("file", TRUE, format, pixels)

\* Path::exists, Path::is_file, Path::is_dir
exists(fsys, path)  == fsys[path].kind # "none"
is_file(fsys, path) == fsys[path].kind = "file"
is_dir(fsys, path)  == fsys[path].kind = "dir"

\* to_path_type: "File", "Directory" or "None"
to_path_type(fsys, path) ==
    IF is_file(fsys, path) THEN "File"
    ELSE IF is_dir(fsys, path) THEN "Directory"
    ELSE "None"

\* the outcomes of DynamicImage::save: the file is written, or it returns Err
SaveOutcomes == {"ok", "fail"}

----------------------------------------------------------------------------
(* convert_file, is_image_file, is_image_with_type *)

\* the result of convert_file on fsys: the file system after it, the
\* accesses it made, what it returned and the path it computed
convert_file(fsys, path, target_format, sv) ==
    LET f    == fsys[path]
        name == format_to_string(target_format)
        tp   == with_extension(path, name)
        opened  == {<<"open", path>>}
        decoded == opened \cup {<<"decode", path>>}
        written == decoded \cup {<<"write", tp>>}
    IN  IF ~f.readable
        THEN [fs |-> fsys, io |-> opened, res |-> "OpenError", output |-> path]
        ELSE IF f.format = NoFormat
        THEN [fs |-> fsys, io |-> opened, res |-> Panic, output |-> path]
        ELSE IF f.pixels = Corrupt
        THEN [fs |-> fsys, io |-> decoded, res |-> "DecodeError", output |-> path]
        ELSE IF name = NoName
        THEN [fs |-> fsys, io |-> decoded, res |-> Panic, output |-> path]
        ELSE IF sv = "fail"
        THEN [fs |-> fsys, io |-> decoded, res |-> "EncodeError", output |-> tp]
        ELSE [fs |-> [fsys EXCEPT ![tp] = Image(target_format, f.pixels)],
              io |-> written, res |-> "Ok", output |-> tp]

\* is_image_file that takes only PNG files for images
is_image_file_png_only(fsys, path) ==
    fsys[path].readable /\ fsys[path].format = "Png"

\* is_image_file(path).unwrap_or(false)
is_image_file(fsys, path) ==
    fsys[path].readable /\ fsys[path].format # NoFormat

\* is_image_with_type that takes any detected format for the expected one
is_image_with_type_any(fsys, path, format) ==
    IF ~fsys[path].readable THEN "Err"
    ELSE IF fsys[path].format # NoFormat THEN "Ok(true)" ELSE "Ok(false)"

\* is_image_with_type: "Ok(true)", "Ok(false)" or "Err"
is_image_with_type(fsys, path, format) ==
    IF ~fsys[path].readable THEN "Err"
    ELSE IF fsys[path].format = format THEN "Ok(true)" ELSE "Ok(false)"

----------------------------------------------------------------------------
(* The command line *)

\* Option<String>: <<>> is None, <<s>> is Some(s)
LogLevels == {<<>>, <<"debug">>, <<"verbose">>}

\* the format names given on the command line
FormatArgs == {s_png, <<" ","J","P","G">>, <<"s","v","g">>}

\* Option<Commands>
Commands ==
    {[name |-> "None", format |-> <<>>], [name |-> "Info", format |-> <<>>]}
    \cup {[name |-> "Convert", format |-> f] : f \in FormatArgs}
    \cup {[name |-> "Is", format |-> f] : f \in FormatArgs}

Args == [path : AllPaths, log_level : LogLevels, command : Commands]

NoResult == "NoResult"

NoCall == [called |-> FALSE, input |-> Folder, target |-> NoFormat,
           output |-> Folder, res |-> NoResult, io |-> {},
           before |-> [p \in AllPaths |-> NoFile]]

NoWalk == [target |-> NoFormat, start |-> [p \in AllPaths |-> NoFile],
           visited |-> {}, missed |-> {}, yielded |-> {}, skipped |-> {},
           converted |-> {}]

\* the format table exercise: a string, the word it was made from, and
\* what the table's functions return for it ("-" and <<"-">>: not called yet)
NoExercise == [str |-> <<>>, base |-> <<>>, strict |-> "-", dirty |-> "-",
               name |-> <<"-">>, back |-> "-"]

\* the files a run may find
InitFiles ==
    [p \in AllPaths |->
        CASE p = Folder -> {Directory}
          [] p = a_jpg  -> {NoFile, Image("Jpeg", "p1"), Image("Jpeg", Corrupt), Unreadable}
          [] p = a_png  -> {NoFile, Image("Png", "p2"), Image("Jpeg", "p3")}
          [] p = a_jpeg -> {NoFile, Image("Jpeg", "p4")}
          [] p = a_txt  -> {NoFile, Text, Special}]

InitFS == {f \in [AllPaths -> UNION {InitFiles[p] : p \in AllPaths}] :
              \A p \in AllPaths : f[p] \in InitFiles[p]}

Init ==
    /\ fs \in InitFS
    /\ args \in Args
    /\ subscriber = FALSE
    /\ pc = "run"
    /\ result = NoResult
    /\ stdout = <<>>
    /\ io = {}
    /\ walk = NoWalk
    /\ last = NoCall
    /\ ft = NoExercise

----------------------------------------------------------------------------
(* run *)

\* run lines 56-65: the log level is parsed and the subscriber installed
RunLogging ==
    /\ pc = "run"
    /\ IF args.log_level = <<>>
       THEN /\ pc' = "validate"
            /\ UNCHANGED <<result, subscriber>>
       ELSE IF string_to_log_level(args.log_level[1]) = "InvalidLogLevel"
       THEN /\ pc' = "done"
            /\ result' = "InvalidLogLevel"
            /\ UNCHANGED subscriber
       ELSE IF subscriber
       THEN /\ pc' = "done"
            /\ result' = "SubscriberError"
            /\ UNCHANGED subscriber
       ELSE /\ subscriber' = TRUE
            /\ pc' = "validate"
            /\ UNCHANGED result
    /\ UNCHANGED <<fs, args, stdout, io, walk, last, ft>>

\* run without the return for a path that does not exist
RunValidatePath_unchecked ==
    /\ pc = "validate"
    /\ io' = io \cup {<<"exists", args.path>>}
    /\ pc' = "dispatch"
    /\ UNCHANGED <<result, fs, args, subscriber, stdout, walk, last, ft>>

\* run lines 67-71: the path must exist
RunValidatePath ==
    /\ pc = "validate"
    /\ io' = io \cup {<<"exists", args.path>>}
    /\ IF ~exists(fs, args.path)
       THEN /\ pc' = "done"
            /\ result' = "PathNotFound"
       ELSE /\ pc' = "dispatch"
            /\ UNCHANGED result
    /\ UNCHANGED <<fs, args, subscriber, stdout, walk, last, ft>>

\* what run returns for what convert_file returned (convert lines 141-144)
ConvertError(res, wrapped) ==
    IF res = "Ok" THEN "Ok" ELSE IF res = Panic THEN Panic ELSE wrapped

Call(path, target, r) ==
    [called |-> TRUE, input |-> path, target |-> target, output |-> r.output,
     res |-> r.res, io |-> r.io, before |-> fs]

\* run line 74 and convert: a file is converted, a directory starts the walk
RunConvert ==
    /\ pc = "dispatch"
    /\ args.command.name = "Convert"
    /\ LET target_format == dirty_string_to_format(args.command.format)
       IN  IF target_format = UnknownFormat
           THEN /\ pc' = "done"
                /\ result' = "UnknownFormat"
                /\ UNCHANGED <<fs, io, walk, last>>
           ELSE IF is_file(fs, args.path)
           THEN \E sv \in SaveOutcomes :
                  LET r == convert_file(fs, args.path, target_format, sv)
                  IN  /\ fs' = r.fs
                      /\ io' = io \cup {<<"classify", args.path>>} \cup r.io
                      /\ last' = Call(args.path, target_format, r)
                      /\ pc' = "done"
                      /\ result' = ConvertError(r.res, "ConvertFileError")
                      /\ UNCHANGED walk
           ELSE IF is_dir(fs, args.path)
           THEN /\ pc' = "walk"
                /\ walk' = [NoWalk EXCEPT !.target = target_format, !.start = fs]
                /\ io' = io \cup {<<"classify", args.path>>}
                /\ UNCHANGED <<fs, result, last>>
           ELSE /\ pc' = "done"
                /\ result' = "AccessError"
                /\ io' = io \cup {<<"classify", args.path>>}
                /\ UNCHANGED <<fs, walk, last>>
    /\ UNCHANGED <<args, subscriber, stdout, ft>>

\* the entries the walk can still yield: the root and what is in it, but
\* for those it yielded and those created behind its back
Walkable ==
    {p \in AllPaths : exists(fs, p) /\ p \notin walk.visited /\ p \notin walk.missed}

\* the loop of convert_directory without the ? after convert_file
WalkTurn_keep_going(p, yield, sv, seen) ==
    /\ pc = "walk"
    /\ p \in Walkable
    /\ IF yield = "Err"
       THEN /\ walk' = [walk EXCEPT !.visited = @ \cup {p}, !.skipped = @ \cup {p}]
            /\ UNCHANGED <<fs, io, last, pc, result>>
       ELSE IF ~is_image_file(fs, p)
       THEN /\ walk' = [walk EXCEPT !.visited = @ \cup {p}, !.yielded = @ \cup {p},
                                    !.skipped = @ \cup {p}]
            /\ io' = io \cup {<<"open", p>>}
            /\ UNCHANGED <<fs, last, pc, result>>
       ELSE LET r == convert_file(fs, p, walk.target, sv)
                created == {q \in {r.output} : ~exists(fs, q) /\ exists(r.fs, q)}
            IN  /\ fs' = r.fs
                /\ io' = io \cup {<<"open", p>>} \cup r.io
                /\ last' = Call(p, walk.target, r)
                /\ walk' = [walk EXCEPT !.visited = @ \cup {p},
                                        !.yielded = @ \cup {p},
                                        !.converted = @ \cup {<<p, r.res>>},
                                        !.missed = IF seen THEN @ ELSE @ \cup created]
                /\ UNCHANGED <<pc, result>>
    /\ UNCHANGED <<args, subscriber, stdout, ft>>

\* convert_directory: one turn of the loop over Walk::new(path).
\* yield is what the walk hands out for the entry, sv how the save ends,
\* seen whether the walk still lists a file created by this turn
WalkTurn(p, yield, sv, seen) ==
    /\ pc = "walk"
    /\ p \in Walkable
    /\ IF yield = "Err"
       THEN /\ walk' = [walk EXCEPT !.visited = @ \cup {p}, !.skipped = @ \cup {p}]
            /\ UNCHANGED <<fs, io, last, pc, result>>
       ELSE IF ~is_image_file(fs, p)
       THEN /\ walk' = [walk EXCEPT !.visited = @ \cup {p}, !.yielded = @ \cup {p},
                                    !.skipped = @ \cup {p}]
            /\ io' = io \cup {<<"open", p>>}
            /\ UNCHANGED <<fs, last, pc, result>>
       ELSE LET r == convert_file(fs, p, walk.target, sv)
                created == {q \in {r.output} : ~exists(fs, q) /\ exists(r.fs, q)}
            IN  /\ fs' = r.fs
                /\ io' = io \cup {<<"open", p>>} \cup r.io
                /\ last' = Call(p, walk.target, r)
                /\ walk' = [walk EXCEPT !.visited = @ \cup {p},
                                        !.yielded = @ \cup {p},
                                        !.converted = @ \cup {<<p, r.res>>},
                                        !.missed = IF seen THEN @ ELSE @ \cup created]
                /\ IF r.res = "Ok"
                   THEN UNCHANGED <<pc, result>>
                   ELSE /\ pc' = "done"
                        /\ result' = ConvertError(r.res, "ConvertDirError")
    /\ UNCHANGED <<args, subscriber, stdout, ft>>

WalkStep ==
    \E p \in AllPaths, yield \in {"Ok", "Err"}, sv \in SaveOutcomes, seen \in BOOLEAN :
        WalkTurn(p, yield, sv, seen)

\* convert_directory: the walk is over, convert and run return Ok
WalkEnd ==
    /\ pc = "walk"
    /\ Walkable = {}
    /\ pc' = "done"
    /\ result' = "Ok"
    /\ UNCHANGED <<fs, args, subscriber, stdout, io, walk, last, ft>>

\* is with the path classified before the format name is parsed
RunIs_classify_first ==
    /\ pc = "dispatch"
    /\ args.command.name = "Is"
    /\ pc' = "done"
    /\ LET format == dirty_string_to_format(args.command.format)
           type == to_path_type(fs, args.path)
       IN  IF format = UnknownFormat
           THEN /\ result' = "UnknownFormat"
                /\ io' = io \cup {<<"classify", args.path>>}
           ELSE IF type = "File"
           THEN LET r == is_image_with_type(fs, args.path, format)
                IN  /\ io' = io \cup {<<"classify", args.path>>, <<"open", args.path>>}
                    /\ result' = CASE r = "Err"      -> "OpenError"
                                   [] r = "Ok(true)" -> "Ok"
                                   [] OTHER          -> "FormatMismatch"
           ELSE /\ result' = Panic
                /\ io' = io \cup {<<"classify", args.path>>}
    /\ UNCHANGED <<fs, args, subscriber, stdout, walk, last, ft>>

\* run lines 75-81 and is
RunIs ==
    /\ pc = "dispatch"
    /\ args.command.name = "Is"
    /\ pc' = "done"
    /\ LET format == dirty_string_to_format(args.command.format)
       IN  IF format = UnknownFormat
           THEN /\ result' = "UnknownFormat"
                /\ UNCHANGED io
           ELSE IF to_path_type(fs, args.path) = "File"
           THEN LET r == is_image_with_type(fs, args.path, format)
                IN  /\ io' = io \cup {<<"classify", args.path>>, <<"open", args.path>>}
                    /\ result' = CASE r = "Err"      -> "OpenError"
                                   [] r = "Ok(true)" -> "Ok"
                                   [] OTHER          -> "FormatMismatch"
           ELSE /\ result' = Panic
                /\ io' = io \cup {<<"classify", args.path>>}
    /\ UNCHANGED <<fs, args, subscriber, stdout, walk, last, ft>>

\* the line of info written with write! instead of writeln!
InfoLineNoNewline(path, format) ==
    display(path) \o <<" ">>
        \o (IF format = NoFormat THEN s_unknown ELSE format_to_string(format))

\* the line info writes
InfoLine(path, format) ==
    display(path) \o <<" ">>
        \o (IF format = NoFormat THEN s_unknown ELSE format_to_string(format))
        \o <<"\n">>

\* run line 82 and info; sink is whether context.stdout takes the line
RunInfo ==
    /\ pc = "dispatch"
    /\ args.command.name \in {"Info", "None"}
    /\ pc' = "done"
    /\ LET type == to_path_type(fs, args.path)
       IN  IF type = "File"
           THEN /\ io' = io \cup {<<"classify", args.path>>, <<"open", args.path>>}
                /\ IF ~fs[args.path].readable
                   THEN /\ result' = "OpenError"
                        /\ UNCHANGED stdout
                   ELSE IF fs[args.path].format # NoFormat
                           /\ format_to_string(fs[args.path].format) = NoName
                   THEN /\ result' = Panic
                        /\ UNCHANGED stdout
                   ELSE \E sink \in BOOLEAN :
                          IF sink
                          THEN /\ stdout' = Append(stdout,
                                       InfoLine(args.path, fs[args.path].format))
                               /\ result' = "Ok"
                          ELSE /\ result' = "StdoutError"
                               /\ UNCHANGED stdout
           ELSE /\ io' = io \cup {<<"classify", args.path>>}
                /\ result' = IF type = "Directory" THEN Panic ELSE "AccessError"
                /\ UNCHANGED stdout
    /\ UNCHANGED <<fs, args, subscriber, walk, last, ft>>

Next ==
    \/ RunLogging
    \/ RunValidatePath
    \/ RunConvert
    \/ WalkStep
    \/ WalkEnd
    \/ RunIs
    \/ RunInfo

Spec == Init /\ [][Next]_vars

\* the runs of the convert command, on a file or on a directory
DirInit ==
    /\ Init
    /\ args.command.name = "Convert"
    /\ args.log_level = <<>>

DirNext ==
    \/ RunLogging
    \/ RunValidatePath
    \/ RunConvert
    \/ WalkStep
    \/ WalkEnd

\* run is straight-line code: a run that can take a step takes it
DirSpec == DirInit /\ [][DirNext]_vars /\ WF_vars(DirNext)

----------------------------------------------------------------------------
(* The format table on its own *)

upper_char(c) ==
    IF \E i \in 1..Len(LOWER) : LOWER[i] = c
    THEN UPPER[CHOOSE i \in 1..Len(LOWER) : LOWER[i] = c]
    ELSE c

Words ==
    {s_png, s_jpg, s_jpeg, s_gif, s_webp, s_pnm, s_tiff, s_tga, s_dds, s_bmp,
     s_ico, s_hdr, s_openexr, s_farbfeld, s_avif, s_qoi, s_pcx,
     <<"s","v","g">>, <<"e","x","r">>, <<"t","i","f">>, <<"j","p","e">>,
     <<"p","n","g","s">>, <<"j","p"," ","g">>, <<>>}

\* a word as it is, in capitals, and with a capital first letter
Cases(w) ==
    {w, [i \in 1..Len(w) |-> upper_char(w[i])],
        [i \in 1..Len(w) |-> IF i = 1 THEN upper_char(w[i]) ELSE w[i]]}

Pads == UNION {[1..k -> {" ", "\t"}] : k \in 0..MaxPad}

\* every word in every case with every padding
FormatInputs ==
    UNION {{[NoExercise EXCEPT !.str = l \o c \o r, !.base = w] :
               c \in Cases(w), l \in Pads, r \in Pads} : w \in Words}

FormatInit ==
    /\ ft \in FormatInputs
    /\ fs = [p \in AllPaths |-> NoFile]
    /\ args = [path |-> Folder, log_level |-> <<>>,
               command |-> [name |-> "None", format |-> <<>>]]
    /\ subscriber = FALSE
    /\ pc = "table"
    /\ result = NoResult
    /\ stdout = <<>>
    /\ io = {}
    /\ walk = NoWalk
    /\ last = NoCall

rest == <<fs, args, subscriber, pc, result, stdout, io, walk, last>>

\* string_to_format(str)
TableStrict ==
    /\ pc = "table"
    /\ ft.strict = "-"
    /\ ft' = [ft EXCEPT !.strict = string_to_format(ft.str)]
    /\ UNCHANGED rest

\* dirty_string_to_format(str)
TableDirty ==
    /\ pc = "table"
    /\ ft.dirty = "-"
    /\ ft' = [ft EXCEPT !.dirty = dirty_string_to_format(ft.str)]
    /\ UNCHANGED rest

\* format_to_string of the format string_to_format returned
TableRender ==
    /\ pc = "table"
    /\ ft.strict \in ImageFormat
    /\ ft.name = <<"-">>
    /\ ft' = [ft EXCEPT !.name = format_to_string(ft.strict)]
    /\ UNCHANGED rest

\* string_to_format of the name format_to_string returned
TableBack ==
    /\ pc = "table"
    /\ ft.name # <<"-">>
    /\ ft.back = "-"
    /\ ft' = [ft EXCEPT !.back = string_to_format(ft.name)]
    /\ UNCHANGED rest

FormatNext == TableStrict \/ TableDirty \/ TableRender \/ TableBack

FormatSpec == FormatInit /\ [][FormatNext]_vars

----------------------------------------------------------------------------
(* What the specification says of the format table *)

\* the closed format set with the canonical lowercase name of each format
CanonicalNames ==
    {<<"Png", s_png>>, <<"Jpeg", s_jpeg>>, <<"Gif", s_gif>>, <<"WebP", s_webp>>,
     <<"Pnm", s_pnm>>, <<"Tiff", s_tiff>>, <<"Tga", s_tga>>, <<"Dds", s_dds>>,
     <<"Bmp", s_bmp>>, <<"Ico", s_ico>>, <<"Hdr", s_hdr>>,
     <<"OpenExr", s_openexr>>, <<"Farbfeld", s_farbfeld>>, <<"Avif", s_avif>>,
     <<"Qoi", s_qoi>>, <<"Pcx", s_pcx>>}

\* the accepted names: the canonical names and the alias jpg
AcceptedNames == CanonicalNames \cup {<<"Jpeg", s_jpg>>}

CanonicalName(format) == (CHOOSE e \in CanonicalNames : e[1] = format)[2]

\* the format an accepted name stands for, UnknownFormat for any other string
NamedFormat(name) ==
    IF \E e \in AcceptedNames : e[2] = name
    THEN (CHOOSE e \in AcceptedNames : e[2] = name)[1]
    ELSE UnknownFormat

\* C9: the two directions of the format table agree. For every string that
\* string_to_format accepts, format_to_string of the format is the canonical
\* lowercase name of the string (jpg and jpeg both give jpeg),
\* string_to_format maps that name back to the same format, and
\* format_to_string is defined for the format.
C9_TableAgrees ==
    (pc = "table" /\ ft.strict \in ImageFormat) =>
        /\ ft.strict = NamedFormat(ft.str)
        /\ ft.name # <<"-">> =>
              /\ ft.name # NoName
              /\ ft.name = CanonicalName(NamedFormat(ft.str))
              /\ ft.name = to_lowercase(ft.name)
        /\ ft.back # "-" => ft.back = ft.strict

C9_Witness ==
    /\ pc = "table"
    /\ ft.str = s_jpg
    /\ ft.strict = "Jpeg"
    /\ ft.name = s_jpeg
    /\ ft.back = "Jpeg"

\* C10: dirty_string_to_format accepts a string exactly when the word left
\* after lowercasing it and trimming the whitespace around it is one of the
\* 16 canonical names or jpg; it then returns the format of that word, so
\* that letter case and padding never change the format, and it returns
\* UnknownFormat for every other string.
C10_DirtyParse ==
    (pc = "table" /\ ft.dirty # "-") =>
        /\ Cardinality(CanonicalNames) = 16
        /\ ft.dirty = NamedFormat(ft.base)
        /\ (ft.dirty # UnknownFormat) <=> (\E e \in AcceptedNames : e[2] = ft.base)

C10_Witness ==
    /\ pc = "table"
    /\ ft.str = <<"\t", "J", "P", "G", " ">>
    /\ ft.dirty = "Jpeg"

----------------------------------------------------------------------------
(* What the specification says of run *)

\* the format each name given on the command line stands for
ArgFormat(name) ==
    CASE name = s_png                -> "Png"
      [] name = <<" ","J","P","G">>  -> "Jpeg"
      [] OTHER                       -> UnknownFormat

Done == pc = "done"
Command == args.command.name
LoggingFailed == result \in {"InvalidLogLevel", "SubscriberError"}
ValidLevels == {"trace", "debug", "info", "warn", "error"}
Accesses(kinds) == {e \in io : e[1] \in kinds}

\* C1 as stated: run on a path that does not exist fails with PathNotFound
\* whatever the other arguments are, the log level included, and opens no
\* file before that.
C1_Original ==
    (Done /\ fs[args.path].kind = "none") =>
        /\ result = "PathNotFound"
        /\ Accesses({"open", "decode", "write"}) = {}

\* C1: run on a path that does not exist opens no file and fails with
\* PathNotFound, unless setting up logging fails first: an invalid log
\* level fails with InvalidLogLevel and a subscriber that cannot be
\* installed with its own error, both before the path is looked at.
C1_Amended ==
    (Done /\ fs[args.path].kind = "none") =>
        /\ Accesses({"classify", "open", "decode", "write"}) = {}
        /\ result \in {"PathNotFound", "InvalidLogLevel", "SubscriberError"}
        /\ result = "InvalidLogLevel" <=>
              (args.log_level # <<>> /\ args.log_level[1] \notin ValidLevels)
        /\ result = "SubscriberError" =>
              (args.log_level # <<>> /\ args.log_level[1] \in ValidLevels)
        /\ LoggingFailed => io = {}

C1_Witness ==
    /\ Done
    /\ fs[args.path].kind = "none"
    /\ args.log_level = <<"debug">>
    /\ Command = "Convert"
    /\ result = "PathNotFound"

\* C2 as stated: when convert or is rejects the format name, no file system
\* access at all has been made, the existence check included.
C2_Original ==
    (Done /\ result = "UnknownFormat") => io = {}

\* C2: a run of convert or is with a format name outside the accepted set
\* never classifies, opens, reads or writes anything; the rejection comes
\* after run's existence check of the path and nothing else, so that a
\* path that does not exist fails with PathNotFound instead.
C2_Amended ==
    (Done /\ Command \in {"Convert", "Is"}
          /\ ArgFormat(args.command.format) = UnknownFormat) =>
        /\ Accesses({"classify", "open", "decode", "write"}) = {}
        /\ fs[args.path].kind = "none" => result # "UnknownFormat"
        /\ (fs[args.path].kind # "none" /\ ~LoggingFailed) => result = "UnknownFormat"
        /\ result = "UnknownFormat" => io = {<<"exists", args.path>>}

C2_Witness ==
    /\ Done
    /\ Command = "Is"
    /\ result = "UnknownFormat"
    /\ fs[args.path].kind = "file"

\* C3 as stated: convert_file leaves its input as it was, also when the
\* extension of the input is the canonical name of the target format, and
\* writes nothing but the output file.
C3_InputUntouched ==
    last.called =>
        /\ fs[last.input] = last.before[last.input]
        /\ <<"write", last.input>> \notin last.io
        /\ \A p \in AllPaths \ {with_extension(last.input, CanonicalName(last.target))} :
              fs[p] = last.before[p]

\* C4 as stated: every failure of convert_file is an error value, OpenError
\* for a file that cannot be read or whose format is not detected,
\* DecodeError for a file that does not decode, EncodeError for a failed
\* save; it never panics and a failed conversion writes no file.
C4_ErrorsAreValues ==
    last.called =>
        LET f == last.before[last.input]
        IN  /\ last.res \in {"Ok", "OpenError", "DecodeError", "EncodeError"}
            /\ (~f.readable \/ f.format = NoFormat) => last.res = "OpenError"
            /\ (f.readable /\ f.format # NoFormat /\ f.pixels = Corrupt)
                  => last.res = "DecodeError"
            /\ last.res # "Ok" =>
                  (fs = last.before /\ {e \in last.io : e[1] = "write"} = {})


----------------------------------------------------------------------------
(* What the specification says of the directory walk *)

Walking == walk.target # NoFormat
Failed == {c \in walk.converted : c[2] # "Ok"}
Detectable(f) == f.readable /\ f.format # NoFormat
Output(p, format) == <<p[1], CanonicalName(format)>>

\* C5: directory conversion fails exactly when the conversion of an entry
\* that passed detection fails. An entry the walk reports as an error, that
\* cannot be opened or whose format is not detected is skipped: it is never
\* decoded or converted and does not fail the walk. The first failed
\* conversion ends the walk with that failure: it is the last entry the
\* walk touched and the only failed one.
C5_FirstFailureEnds ==
    Walking =>
        /\ Done => (result = "Ok" <=> Failed = {})
        /\ Done => result \in {"Ok", "ConvertDirError"}
        /\ Failed # {} =>
              /\ Done
              /\ Cardinality(Failed) = 1
              /\ last.called /\ <<last.input, last.res>> \in Failed
              /\ last.res \in {"OpenError", "DecodeError", "EncodeError"}
        /\ \A p \in walk.skipped :
              /\ \A c \in walk.converted : c[1] # p
              /\ <<"decode", p>> \notin io
              /\ p \in walk.yielded => ~Detectable(fs[p])
        /\ \A p \in walk.visited \ walk.yielded : p \in walk.skipped
        /\ \A c \in walk.converted : c[1] \in walk.yielded /\ <<"open", c[1]>> \in io

C5_Witness ==
    /\ Walking
    /\ Done
    /\ result = "ConvertDirError"
    /\ \E p \in walk.skipped : p \notin walk.yielded
    /\ \E p \in walk.skipped : p \in walk.yielded /\ fs[p].kind = "file"
    /\ \E c \in walk.converted : c[2] = "Ok"
    /\ \E p \in AllPaths : fs[p].kind # "none" /\ p \notin walk.visited

\* C6 as stated: a directory conversion that ends well leaves an output
\* file for every entry that was a detectable image when the walk started.
C6_Original ==
    (Walking /\ Done /\ result = "Ok") =>
        \A p \in AllPaths :
            Detectable(walk.start[p]) => fs[Output(p, walk.target)].kind = "file"

\* C6: a directory conversion always finishes, and it finishes well when no
\* conversion has failed. Then every detectable image of the tree at the
\* start of the walk that the walk yielded has an output file of the target
\* format at its path with the extension replaced; an image the walk
\* reported as an error gets none from its own conversion. This holds with
\* the output files created inside the tree while it is walked.
C6_Amended ==
    /\ (pc = "walk") ~> Done
    /\ [](Walking /\ Done /\ Failed = {} =>
            /\ result = "Ok"
            /\ \A p \in AllPaths : fs[p].kind # "none" => p \in walk.visited \cup walk.missed
            /\ \A p \in AllPaths : walk.start[p].kind # "none" => p \in walk.visited
            /\ \A p \in walk.yielded :
                  Detectable(walk.start[p]) =>
                      /\ fs[Output(p, walk.target)].kind = "file"
                      /\ fs[Output(p, walk.target)].format = walk.target
                      /\ <<p, "Ok">> \in walk.converted)

C6_Witness ==
    /\ Walking
    /\ Done
    /\ result = "Ok"
    /\ Detectable(walk.start[a_jpg]) /\ a_jpg \in walk.yielded
    /\ Detectable(walk.start[a_png]) /\ a_png \in walk.yielded
    /\ walk.start[Output(a_jpg, walk.target)].kind = "none"
    /\ Output(a_jpg, walk.target) \in walk.visited
    /\ walk.start[a_txt].kind = "file"

----------------------------------------------------------------------------
(* What the specification says of is and info *)

Expected == ArgFormat(args.command.format)

\* C7 as stated: for a regular file and an accepted format name, run with
\* the is command succeeds exactly when the sniffed format is the expected
\* one, fails with FormatMismatch otherwise, and never decodes or writes.
C7_Original ==
    (Done /\ Command = "Is" /\ fs[args.path].kind = "file" /\ Expected # UnknownFormat) =>
        /\ result = "Ok" <=> fs[args.path].format = Expected
        /\ fs[args.path].format # Expected => result = "FormatMismatch"
        /\ Accesses({"decode", "write"}) = {}

\* C7: for a regular file that can be opened and an accepted format name, a
\* run with the is command that gets past the logging set-up succeeds
\* exactly when the sniffed format is the expected one and fails with
\* FormatMismatch when it is another or none; a file that cannot be opened
\* fails with OpenError. No run of is decodes pixel data or writes a file.
C7_Amended ==
    (Done /\ Command = "Is") =>
        /\ Accesses({"decode", "write"}) = {}
        /\ ~last.called
        /\ (fs[args.path].kind = "file" /\ Expected # UnknownFormat /\ ~LoggingFailed) =>
              IF fs[args.path].readable
              THEN /\ result = "Ok" <=> fs[args.path].format = Expected
                   /\ fs[args.path].format # Expected => result = "FormatMismatch"
              ELSE result = "OpenError"

C7_Witness ==
    /\ Done
    /\ Command = "Is"
    /\ fs[args.path] = Image("Jpeg", "p3")
    /\ args.path = a_png
    /\ Expected = "Png"
    /\ result = "FormatMismatch"

InfoCalled == Done /\ Command \in {"Info", "None"} /\ <<"classify", args.path>> \in io

\* the line the specification asks of info
ExpectedLine ==
    (IF args.path[2] = <<>> THEN args.path[1]
     ELSE args.path[1] \o <<".">> \o args.path[2])
    \o <<" ">>
    \o (IF fs[args.path].format = NoFormat THEN s_unknown
        ELSE CanonicalName(fs[args.path].format))
    \o <<"\n">>

\* C8 as stated: info on a regular file that can be opened succeeds and
\* writes the one line "<path> <format>\n", with unknown for a format that
\* is not detected.
C8_Original ==
    (InfoCalled /\ fs[args.path].kind = "file" /\ fs[args.path].readable) =>
        /\ result = "Ok"
        /\ stdout = <<ExpectedLine>>

\* C8: info on a regular file that can be opened, also when no subcommand
\* is given, writes the one line "<path> <format>\n" to the sink and
\* succeeds when the sink takes the line, with unknown for a format that is
\* not detected, which never makes it fail; when the sink refuses the line
\* info fails with the write error and nothing is written.
C8_Amended ==
    (InfoCalled /\ fs[args.path].kind = "file" /\ fs[args.path].readable) =>
        /\ result \in {"Ok", "StdoutError"}
        /\ result = "Ok" => stdout = <<ExpectedLine>>
        /\ result = "StdoutError" => stdout = <<>>

C8_Witness ==
    /\ InfoCalled
    /\ Command = "None"
    /\ fs[args.path] = Text
    /\ result = "Ok"
    /\ stdout = <<display(args.path) \o <<" ">> \o s_unknown \o <<"\n">>>>

=============================================================================
